---- MODULE Spec2Model ----
(***************************************************************************)
(* A model of src/app.py: a webhook-driven Telegram bot that privately     *)
(* messages users who leave a group.                                        *)
(*                                                                          *)
(* Python values are represented as follows.                                *)
(*   - An optional value (None or a value v) is the sequence <<>> or <<v>>. *)
(*   - The three values True / False / None that the classifier mixes in    *)
(*     one slot are the strings "True", "False", "None".                    *)
(*   - A Python str that is parsed is a sequence of one-character strings.  *)
(*   - A tuple is a sequence; the classifier's result is <<>> for None and  *)
(*     <<was_member, is_member>> for a pair.                                *)
(***************************************************************************)
EXTENDS Integers, Sequences, FiniteSets, TLC

VARIABLES
    environ,          \* os.environ as read at lines 16-18: BOT_TOKEN, WEBHOOK_URL, TARGET_GROUP_ID
    run_as_main,      \* TRUE: "python app.py" (__name__ == "__main__"); FALSE: imported by a WSGI server
    phase,            \* "import" -> "loaded" -> "serving" | "exited"
    TARGET_GROUP_ID,  \* the module global of lines 20-25: <<>> (None) or <<n>>
    ptb_application,  \* the module global of line 40: "None" or "Application"
    route_defined,    \* whether the /<BOT_TOKEN> route exists (line 168)
    log,              \* the records written through logging (order and multiplicity abstracted)
    req,              \* one record per inbound webhook delivery
    outbox            \* outbox[r]: the bot.send_message calls made while handling delivery r

vars == <<environ, run_as_main, phase, TARGET_GROUP_ID, ptb_application,
          route_defined, log, req, outbox>>

----------------------------------------------------------------------------
(* Bounds *)

\* number of webhook deliveries in a behaviour (they may overlap in time)
MaxRequests == 2

Requests == 1 .. MaxRequests

----------------------------------------------------------------------------
(* Python helpers *)

None == <<>>

Some(v) == <<v>>

\* bool(x) for x in {"True", "False", "None"}
Truthy(x) == x = "True"

\* Python's "a or b": a if a is truthy, otherwise b (b is returned as it is)
PyOr(a, b) == IF Truthy(a) THEN a ELSE b

\* "x in [..]" yields a real bool
PyIn(x, S) == IF x \in S THEN "True" ELSE "False"

\* dict.get(key, default)
DictGet(d, key, default) == IF key \in DOMAIN d THEN d[key] ELSE default

----------------------------------------------------------------------------
(* int(str), as used at line 23 *)

\* the digits that occur in the settings tried
Digits == {"0", "1", "5", "9"}

DigitVal(c) == CASE c = "0" -> 0 [] c = "1" -> 1 [] c = "5" -> 5 [] c = "9" -> 9

RECURSIVE LStrip(_)
LStrip(s) == IF s # <<>> /\ Head(s) = " " THEN LStrip(Tail(s)) ELSE s

RECURSIVE RStrip(_)
RStrip(s) == IF s # <<>> /\ s[Len(s)] = " " THEN RStrip(SubSeq(s, 1, Len(s) - 1)) ELSE s

Strip(s) == RStrip(LStrip(s))

\* the literal without its sign
Unsigned(s) == IF s # <<>> /\ Head(s) \in {"-", "+"} THEN Tail(s) ELSE s

\* digits, with single underscores allowed between digits
IsDigitBody(b) ==
    /\ b # <<>>
    /\ \A i \in 1 .. Len(b) : b[i] \in Digits \cup {"_"}
    /\ b[1] \in Digits /\ b[Len(b)] \in Digits
    /\ \A i \in 1 .. Len(b) - 1 : ~(b[i] = "_" /\ b[i + 1] = "_")

\* whether int(s) returns (otherwise it raises ValueError)
IsIntLiteral(s) == IsDigitBody(Unsigned(Strip(s)))

RECURSIVE DigitsValue(_, _)
DigitsValue(b, acc) ==
    IF b = <<>> THEN acc
    ELSE IF Head(b) = "_" THEN DigitsValue(Tail(b), acc)
    ELSE DigitsValue(Tail(b), 10 * acc + DigitVal(Head(b)))

\* int(s) for a literal s
PyInt(s) ==
    LET t == Strip(s)
        v == DigitsValue(Unsigned(t), 0)
    IN  IF Head(t) = "-" THEN 0 - v ELSE v

----------------------------------------------------------------------------
(* Configuration, lines 16-27 *)

\* bool(x) for an optional str: None and "" are falsy
TruthyStr(x) == x # None /\ x[1] # <<>>

\* bool(x) for an optional int: None and 0 are falsy
TruthyInt(x) == x # None /\ x[1] # 0

\* A variant that blocks every group when the setting is not an integer
ParseTargetGroupIdFailClosed(target_group_id_str) ==
    IF TruthyStr(target_group_id_str)
    THEN IF IsIntLiteral(target_group_id_str[1])
         THEN Some(PyInt(target_group_id_str[1]))
         ELSE Some(-1)
    ELSE None

\* lines 20-25: the value TARGET_GROUP_ID ends with
ParseTargetGroupId(target_group_id_str) ==
    IF TruthyStr(target_group_id_str)
    THEN IF IsIntLiteral(target_group_id_str[1])
         THEN Some(PyInt(target_group_id_str[1]))
         ELSE None
    ELSE None

\* line 25: the ValueError branch
TargetGroupIdInvalid(target_group_id_str) ==
    TruthyStr(target_group_id_str) /\ ~IsIntLiteral(target_group_id_str[1])

----------------------------------------------------------------------------
(* Membership snapshots and updates *)

MEMBER == "member"
ADMINISTRATOR == "administrator"
OWNER == "creator"
LEFT == "left"
BANNED == "kicked"
RESTRICTED == "restricted"

Statuses == {MEMBER, ADMINISTRATOR, OWNER, LEFT, BANNED, RESTRICTED}

\* A variant that forgets the owner
MemberStatusesNoOwner == {MEMBER, ADMINISTRATOR}

\* lines 54-58 and 59-63: the statuses that count as membership
MemberStatuses == {MEMBER, ADMINISTRATOR, OWNER}

Flags == {"True", "False", "None"}

Snapshots == [status : Statuses, is_member : Flags]

\* ChatMemberUpdated.difference(): the attributes whose value differs between
\* old_chat_member and new_chat_member, each mapped to (old, new)
difference(chat_member_update) ==
    LET o == chat_member_update.old_chat_member
        n == chat_member_update.new_chat_member
    IN  [k \in {a \in {"status", "is_member"} : o[a] # n[a]} |-> <<o[k], n[k]>>]

\* A variant without lines 49-50: no status change, no result
extract_status_change_status_only(chat_member_update) ==
    LET diff == difference(chat_member_update)
        status_change == DictGet(diff, "status", None)
        is_member_change == DictGet(diff, "is_member", <<"None", "None">>)
        old_is_member == is_member_change[1]
        new_is_member == is_member_change[2]
    IN  IF status_change = None
        THEN None
        ELSE LET old_status == status_change[1]
                 new_status == status_change[2]
                 was_member == PyOr(PyIn(old_status, MemberStatuses), old_is_member)
                 is_member == PyOr(PyIn(new_status, MemberStatuses), new_is_member)
             IN  <<was_member, is_member>>

\* lines 44-64
extract_status_change(chat_member_update) ==
    LET diff == difference(chat_member_update)
        status_change == DictGet(diff, "status", None)
        is_member_change == DictGet(diff, "is_member", <<"None", "None">>)
        old_is_member == is_member_change[1]
        new_is_member == is_member_change[2]
    IN  IF status_change = None
        THEN IF old_is_member = "True" /\ new_is_member = "False"
             THEN <<"True", "False">>
             ELSE None
        ELSE LET old_status == status_change[1]
                 new_status == status_change[2]
                 was_member == PyOr(PyIn(old_status, MemberStatuses), old_is_member)
                 is_member == PyOr(PyIn(new_status, MemberStatuses), new_is_member)
             IN  <<was_member, is_member>>

----------------------------------------------------------------------------
(* handle_member_left, lines 66-109 *)

\* line 73: "TARGET_GROUP_ID and update.chat_member.chat.id != TARGET_GROUP_ID"
WrongGroup(target_group_id, chat_id) ==
    TruthyInt(target_group_id) /\ chat_id # target_group_id[1]

\* line 86: "was_member and not is_member"
LeftGroup(result) == Truthy(result[1]) /\ ~Truthy(result[2])

\* A variant that writes to the user who performed the change
RecipientActor(chat_member_update) == chat_member_update.from_user.id

\* line 83 and line 97: the chat_id the message is sent to
Recipient(chat_member_update) == chat_member_update.new_chat_member.user.id

\* lines 90-95: the text, as the template's two parameters
message_to_user(chat_member_update) ==
    [template |-> "why_did_you_leave",
     first_name |-> chat_member_update.new_chat_member.user.first_name,
     group_name |-> chat_member_update.chat.title]

\* A variant that sends nothing when the same message was already sent
DecisionDedup(chat_member_update) ==
    IF WrongGroup(TARGET_GROUP_ID, chat_member_update.chat.id) THEN "WrongGroup"
    ELSE LET result == extract_status_change(chat_member_update)
         IN  IF result = None THEN "NoRelevantChange"
             ELSE IF LeftGroup(result)
             THEN IF \E r \in Requests : \E i \in 1 .. Len(outbox[r]) :
                        /\ outbox[r][i].chat_id = chat_member_update.new_chat_member.user.id
                        /\ outbox[r][i].text.group_name = chat_member_update.chat.title
                  THEN "NoRelevantChange"
                  ELSE "Send"
             ELSE "NotALeaveEvent"

\* A variant that stops sending once a send has failed
DecisionBreaker(chat_member_update) ==
    IF WrongGroup(TARGET_GROUP_ID, chat_member_update.chat.id) THEN "WrongGroup"
    ELSE LET result == extract_status_change(chat_member_update)
         IN  IF result = None THEN "NoRelevantChange"
             ELSE IF LeftGroup(result)
             THEN IF \E r \in Requests : \E i \in 1 .. Len(outbox[r]) :
                        outbox[r][i].result \in {"Forbidden", "BadRequest", "NetworkError"}
                  THEN "NoRelevantChange"
                  ELSE "Send"
             ELSE "NotALeaveEvent"

\* line 77: the handler's local "result", Some(..) once the group filter is passed
Classified(chat_member_update) ==
    IF WrongGroup(TARGET_GROUP_ID, chat_member_update.chat.id) THEN None
    ELSE Some(extract_status_change(chat_member_update))

\* lines 73-104: the branch the handler takes for an update
Decision(chat_member_update) ==
    LET classified == Classified(chat_member_update)
    IN  IF classified = None THEN "WrongGroup"
        ELSE IF classified[1] = None THEN "NoRelevantChange"
        ELSE IF LeftGroup(classified[1]) THEN "Send"
        ELSE "NotALeaveEvent"

\* What bot.send_message can end with
SendErrors == {"Forbidden", "BadRequest", "NetworkError"}

SendResults == {"ok"} \cup SendErrors

\* A variant that catches only the "bot was blocked" error
CatchesForbiddenOnly(error) == error = "Forbidden"

\* line 99: "except Exception" around the send catches every error of the client
CatchesSendError(error) == error \in SendErrors

\* lines 179-181: "except Exception" in the route catches what de_json and
\* process_update raise, and the route then returns "ok", 200
RouteCatches(exception) == exception \in {"de_json", "process_update"}

OK_200 == <<"ok", 200>>

ERROR_500 == <<"error", 500>>

\* The response to a delivery during which `exception` was raised
ResponseAfter(exception) == IF RouteCatches(exception) THEN OK_200 ELSE ERROR_500

----------------------------------------------------------------------------
(* State *)

\* a delivery that has not arrived yet
IdleRequest ==
    [pc |-> "idle", body |-> None, handler |-> "none", result |-> None,
     outcome |-> "none", response |-> None]

LogRecord(level, message, about) == [level |-> level, message |-> message, about |-> about]

\* values of the three environment variables
TokenValues == {None, Some(<<"t", "k">>)}

UrlValues == {None, Some(<<"u">>)}

Environs(TargetStrings) ==
    [BOT_TOKEN : TokenValues, WEBHOOK_URL : UrlValues, TARGET_GROUP_ID : TargetStrings]

InitWith(TargetStrings) ==
    /\ environ \in Environs(TargetStrings)
    /\ run_as_main \in BOOLEAN
    /\ phase = "import"
    /\ TARGET_GROUP_ID = None
    /\ ptb_application = "None"
    /\ route_defined = FALSE
    /\ log = {}
    /\ req = [r \in Requests |-> IdleRequest]
    /\ outbox = [r \in Requests |-> <<>>]

----------------------------------------------------------------------------
(* Startup *)

\* Module level, lines 16-40 and 168-183: read the configuration, define the route
LoadModule ==
    /\ phase = "import"
    /\ phase' = "loaded"
    /\ TARGET_GROUP_ID' = ParseTargetGroupId(environ.TARGET_GROUP_ID)
    /\ route_defined' = TruthyStr(environ.BOT_TOKEN)
    /\ log' = log
              \cup (IF TargetGroupIdInvalid(environ.TARGET_GROUP_ID)
                    THEN {LogRecord("ERROR", "TARGET_GROUP_ID is not a valid integer", None)}
                    ELSE {})
              \cup (IF TruthyStr(environ.BOT_TOKEN)
                    THEN {}
                    ELSE {LogRecord("ERROR", "BOT_TOKEN not found, webhook route not created", None)})
    /\ UNCHANGED <<environ, run_as_main, ptb_application, req, outbox>>

\* What setup_webhook_sync_for_flask can end with (lines 126-163)
SetupOutcomes == {"webhook_set", "set_webhook_error", "RuntimeError", "raised"}

\* lines 190-212 under "python app.py"
Main(setup) ==
    /\ phase = "loaded"
    /\ run_as_main
    /\ IF ~TruthyStr(environ.BOT_TOKEN) \/ ~TruthyStr(environ.WEBHOOK_URL)
       THEN \* lines 191-194: print FATAL and fall off the end of the script
            /\ setup = "webhook_set"
            /\ phase' = "exited"
            /\ UNCHANGED <<ptb_application, log>>
       ELSE \* lines 197-212
            /\ ptb_application' = "Application"
            /\ phase' = IF setup = "raised" THEN "exited" ELSE "serving"
            /\ log' = log \cup
                 (CASE setup = "webhook_set" ->
                         {LogRecord("INFO", "Webhook successfully set", None)}
                    [] setup = "set_webhook_error" ->
                         {LogRecord("ERROR", "Error setting webhook", None)}
                    [] setup = "RuntimeError" ->
                         {LogRecord("WARNING", "Could not run async webhook setup", None)}
                    [] setup = "raised" -> {})
    /\ UNCHANGED <<environ, run_as_main, TARGET_GROUP_ID, route_defined, req, outbox>>

\* The module imported by a WSGI/ASGI server (the comment at lines 209-211): the
\* __main__ block does not run and ptb_application stays None
ServeImported ==
    /\ phase = "loaded"
    /\ ~run_as_main
    /\ phase' = "serving"
    /\ UNCHANGED <<environ, run_as_main, TARGET_GROUP_ID, ptb_application,
                   route_defined, log, req, outbox>>

----------------------------------------------------------------------------
(* Inbound deliveries *)

UserIds == {101, 202}

\* the administrators who act in some updates (ChatMemberUpdated.from_user)
AdminIds == {303}

ChatIds == {555, -100}

FirstName(user_id) == IF user_id = 101 THEN "Asha" ELSE IF user_id = 202 THEN "Ravi" ELSE "Admin"

Title(chat_id) == IF chat_id = 555 THEN "Readers" ELSE "Writers"

User(user_id) == [id |-> user_id, first_name |-> FirstName(user_id)]

\* a ChatMember: a snapshot together with the user it is about
ChatMemberOf(snapshot, user_id) ==
    [status |-> snapshot.status, is_member |-> snapshot.is_member, user |-> User(user_id)]

\* a ChatMemberUpdated
ChatMemberUpdate(chat_id, from_id, user_id, old, new) ==
    [chat |-> [id |-> chat_id, title |-> Title(chat_id)],
     from_user |-> User(from_id),
     old_chat_member |-> ChatMemberOf(old, user_id),
     new_chat_member |-> ChatMemberOf(new, user_id)]

\* every membership update over the data model
AllChatMemberUpdates ==
    {ChatMemberUpdate(c, f, u, o, n) :
        c \in ChatIds, f \in AdminIds, u \in UserIds, o \in Snapshots, n \in Snapshots}
    \cup
    {ChatMemberUpdate(c, u, u, o, n) :
        c \in ChatIds, u \in UserIds, o \in Snapshots, n \in Snapshots}

Snap(status, is_member) == [status |-> status, is_member |-> is_member]

\* the transitions used where several deliveries overlap: a leave, a join, a
\* flag-only leave, a promotion and an update that changes neither field
SamplePairs ==
    {<<Snap(MEMBER, "None"), Snap(LEFT, "None")>>,
     <<Snap(LEFT, "None"), Snap(MEMBER, "None")>>,
     <<Snap(RESTRICTED, "True"), Snap(RESTRICTED, "False")>>,
     <<Snap(MEMBER, "None"), Snap(ADMINISTRATOR, "None")>>,
     <<Snap(MEMBER, "None"), Snap(MEMBER, "None")>>}

SampleChatMemberUpdates ==
    {ChatMemberUpdate(555, 101, 101, p[1], p[2]) : p \in SamplePairs}
    \cup {ChatMemberUpdate(-100, 303, 202, Snap(MEMBER, "None"), Snap(BANNED, "None")),
          ChatMemberUpdate(-100, 202, 202, Snap(MEMBER, "None"), Snap(LEFT, "None"))}

\* a request body: JSON that Update.de_json accepts or not, and its chat_member
BodiesOf(ChatMemberUpdates) ==
    {[valid |-> FALSE, chat_member |-> None], [valid |-> TRUE, chat_member |-> None]}
    \cup {[valid |-> TRUE, chat_member |-> Some(u)] : u \in ChatMemberUpdates}

----------------------------------------------------------------------------
(* webhook_handler_route and the handler it reaches *)

Finish(r, handler, outcome, response) ==
    [req EXCEPT ![r].pc = "done", ![r].handler = handler, ![r].outcome = outcome,
                ![r].response = Some(response)]

\* lines 170-177: a POST arrives; the application is checked and the body decoded
webhook_handler_route(r, body) ==
    /\ phase = "serving"
    /\ route_defined
    /\ req[r].pc = "idle"
    /\ IF ptb_application = "None"
       THEN \* lines 172-174
            /\ req' = [Finish(r, "none", "NotReady", ERROR_500) EXCEPT ![r].body = Some(body)]
            /\ log' = log \cup {LogRecord("ERROR", "Bot application not ready to handle webhook", None)}
       ELSE IF ~body.valid
       THEN \* line 177 raises, lines 179-181
            /\ req' = [Finish(r, "none", "Error", ResponseAfter("de_json")) EXCEPT ![r].body = Some(body)]
            /\ log' = log \cup {LogRecord("ERROR", "Error handling webhook", Some(body))}
       ELSE /\ req' = [req EXCEPT ![r].pc = "process_update", ![r].body = Some(body)]
            /\ log' = log
    /\ UNCHANGED <<environ, run_as_main, phase, TARGET_GROUP_ID, ptb_application,
                   route_defined, outbox>>

\* line 178 reaching handle_member_left (lines 66-97), up to the await of the send
process_update(r) ==
    /\ req[r].pc = "process_update"
    /\ LET body == req[r].body[1] IN
       IF body.chat_member = None
       THEN \* not a chat_member update: ChatMemberHandler does not run (line 201)
            /\ req' = Finish(r, "none", "NoHandler", OK_200)
            /\ UNCHANGED <<log, outbox>>
       ELSE LET update == body.chat_member[1]
                decision == Decision(update)
                result == Classified(update)
                received == LogRecord("INFO", "ChatMemberUpdate received", Some(update))
            IN  CASE decision = "WrongGroup" ->
                       /\ req' = [Finish(r, "returned", "WrongGroup", OK_200) EXCEPT ![r].result = result]
                       /\ log' = log \cup {received, LogRecord("INFO", "not target group. Ignoring", Some(update))}
                       /\ UNCHANGED outbox
                  [] decision = "NoRelevantChange" ->
                       /\ req' = [Finish(r, "returned", "NoRelevantChange", OK_200) EXCEPT ![r].result = result]
                       /\ log' = log \cup {received, LogRecord("INFO", "No relevant status change", Some(update))}
                       /\ UNCHANGED outbox
                  [] decision = "NotALeaveEvent" ->
                       /\ req' = [Finish(r, "returned", "NotALeaveEvent", OK_200) EXCEPT ![r].result = result]
                       /\ log' = log \cup {received, LogRecord("INFO", "not a leave event", Some(update))}
                       /\ UNCHANGED outbox
                  [] decision = "Send" ->
                       /\ req' = [req EXCEPT ![r].pc = "send_message", ![r].handler = "awaiting",
                                             ![r].result = result]
                       /\ log' = log \cup {received, LogRecord("INFO", "left group", Some(update))}
                       /\ outbox' = [outbox EXCEPT ![r] =
                              Append(@, [chat_id |-> Recipient(update),
                                         text |-> message_to_user(update),
                                         result |-> "pending"])]
    /\ UNCHANGED <<environ, run_as_main, phase, TARGET_GROUP_ID, ptb_application, route_defined>>

\* line 178 raising before the handler runs (for instance an application that
\* was not initialized), caught at lines 179-181
process_update_raises(r) ==
    /\ req[r].pc = "process_update"
    /\ req' = Finish(r, "none", "Error", ResponseAfter("process_update"))
    /\ log' = log \cup {LogRecord("ERROR", "Error handling webhook", req[r].body)}
    /\ UNCHANGED <<environ, run_as_main, phase, TARGET_GROUP_ID, ptb_application,
                   route_defined, outbox>>

\* lines 97-103 and 181: the awaited send returns or raises
send_message_returns(r, result) ==
    /\ req[r].pc = "send_message"
    /\ LET update == req[r].body[1].chat_member[1]
           n == Len(outbox[r])
       IN  /\ outbox' = [outbox EXCEPT ![r][n].result = result]
           /\ IF result = "ok"
              THEN /\ req' = Finish(r, "returned", "Sent", OK_200)
                   /\ log' = log \cup {LogRecord("INFO", "Message sent to user", Some(update))}
              ELSE IF CatchesSendError(result)
              THEN /\ req' = Finish(r, "returned", "SendFailed", OK_200)
                   /\ log' = log \cup {LogRecord("ERROR", "Error sending message to user", Some(update))}
              ELSE \* the error leaves the handler and is reported by error_handler (lines 121-123)
                   /\ req' = Finish(r, "raised", "Error", ResponseAfter("process_update"))
                   /\ log' = log \cup {LogRecord("ERROR", "Exception while handling an update", Some(update))}
    /\ UNCHANGED <<environ, run_as_main, phase, TARGET_GROUP_ID, ptb_application, route_defined>>

----------------------------------------------------------------------------
(* Specifications *)

AllTargetStrings ==
    {None, Some(<<>>), Some(<<"0">>), Some(<<"5", "5", "5">>), Some(<<" ", "5", "5", "5">>),
     Some(<<"-", "1", "0", "0">>), Some(<<"a", "b", "c">>), Some(<<"5", "a">>), Some(<<"-">>)}

SampleTargetStrings ==
    {None, Some(<<"0">>), Some(<<"5", "5", "5">>), Some(<<"a", "b", "c">>)}

Startup ==
    \/ LoadModule
    \/ \E setup \in SetupOutcomes : Main(setup)
    \/ ServeImported

Handle(r, Bodies) ==
    \/ /\ req[r].pc = "idle"
       /\ \E body \in Bodies : webhook_handler_route(r, body)
    \/ process_update(r)
    \/ process_update_raises(r)
    \/ \E result \in SendResults : send_message_returns(r, result)

SampleBodies == BodiesOf(SampleChatMemberUpdates)

AllBodies == BodiesOf(AllChatMemberUpdates)

\* several deliveries, possibly overlapping, over the sample updates
Init == InitWith(SampleTargetStrings)

Next == Startup \/ \E r \in Requests : Handle(r, SampleBodies)

Spec == Init /\ [][Next]_vars

\* one delivery, over every update of the data model and every configuration
InitAll == InitWith(AllTargetStrings)

NextAll == Startup \/ Handle(1, AllBodies)

SpecAll == InitAll /\ [][NextAll]_vars

----------------------------------------------------------------------------
(* Vocabulary of the properties *)

\* delivery r carries a membership update
HasUpdate(r) == req[r].body # None /\ req[r].body[1].chat_member # None

UpdateOf(r) == req[r].body[1].chat_member[1]

\* handle_member_left was entered for delivery r
HandlerRan(r) == HasUpdate(r) /\ req[r].handler \in {"awaiting", "returned", "raised"}

\* the handler of delivery r got past the group filter and called the classifier
ClassifiedIn(r) == HandlerRan(r) /\ req[r].result # None

Attempts(r) == Len(outbox[r])

\* the group filter as specified: no target configured, or the event is from the target
PassesFilter(r) == TARGET_GROUP_ID = None \/ UpdateOf(r).chat.id = TARGET_GROUP_ID[1]

\* a classifier result that is a "left" transition: was a member, is not one any more
IsLeft(result) == result # None /\ result[1] = "True" /\ result[2] # "True"

\* membership of one snapshot, rule 1 of the classifier's description
Membership(snapshot) ==
    snapshot.status \in {"member", "administrator", "creator"} \/ snapshot.is_member = "True"

Bool(b) == IF b THEN "True" ELSE "False"

\* same status on both sides, is_member moved from true to false
FlagOnlyLeave(update) ==
    /\ update.old_chat_member.status = update.new_chat_member.status
    /\ update.old_chat_member.is_member = "True"
    /\ update.new_chat_member.is_member = "False"

BothMemberStatuses(update) ==
    /\ update.old_chat_member.status \in {"member", "administrator", "creator"}
    /\ update.new_chat_member.status \in {"member", "administrator", "creator"}

\* every send of delivery r goes to the user whose membership changed, with the
\* text built from that user's name and the chat's title
SendsAddressedToLeaver(r) ==
    \A i \in 1 .. Attempts(r) :
        /\ outbox[r][i].chat_id = UpdateOf(r).new_chat_member.user.id
        /\ outbox[r][i].text.first_name = UpdateOf(r).new_chat_member.user.first_name
        /\ outbox[r][i].text.group_name = UpdateOf(r).chat.title

----------------------------------------------------------------------------
(* C1 *)

\* C1: whenever a target group is configured (any integer, 0 included) and the
\* event's chat differs from it, the handling ends as skipped and the messenger
\* is never invoked, whatever the snapshots are.
C1_OtherGroupIsSkipped ==
    \A r \in Requests :
        (HandlerRan(r) /\ TARGET_GROUP_ID # None /\ UpdateOf(r).chat.id # TARGET_GROUP_ID[1])
            => /\ outbox[r] = <<>>
               /\ req[r].outcome \in {"WrongGroup", "NoRelevantChange", "NotALeaveEvent"}

----------------------------------------------------------------------------
(* C2 *)

\* C2: an event that passes the group filter reaches the classifier, and a
\* handling that reached the classifier sends exactly one message when the
\* result is a left transition (was_member true, is_member not true) and none
\* otherwise; the message goes to the user whose membership changed and is
\* built from that user's first name and the chat's title.
C2_OneMessageExactlyOnLeave ==
    \A r \in Requests :
        HandlerRan(r) =>
            /\ PassesFilter(r) => req[r].result # None
            /\ req[r].result # None =>
                  /\ Attempts(r) = IF IsLeft(req[r].result[1]) THEN 1 ELSE 0
                  /\ SendsAddressedToLeaver(r)
                  /\ (req[r].outcome \in {"Sent", "SendFailed"}) = (req[r].pc = "done" /\ IsLeft(req[r].result[1]))

\* C2 witness: a user removed by an administrator was sent the message
C2_Witness ==
    \E r \in Requests :
        /\ HandlerRan(r)
        /\ req[r].outcome = "Sent"
        /\ UpdateOf(r).from_user.id # UpdateOf(r).new_chat_member.user.id
        /\ Attempts(r) = 1

----------------------------------------------------------------------------
(* C5 *)

\* C5 as stated: when both statuses are among member, administrator and owner
\* (equal statuses included) the classifier returns (True, True) and nothing is sent.
C5_MemberToMemberIsTrueTrue ==
    \A r \in Requests :
        (ClassifiedIn(r) /\ BothMemberStatuses(UpdateOf(r)))
            => (req[r].result[1] = <<"True", "True">> /\ outbox[r] = <<>>)

\* C5 amended: when both statuses are among member, administrator and owner and
\* differ, the classifier returns (True, True) and nothing is sent; when they are
\* equal it returns no result and nothing is sent, except that is_member moving
\* from true to false gives (True, False), a leave, with one message.
C5_MemberToMemberAmended ==
    \A r \in Requests :
        (ClassifiedIn(r) /\ BothMemberStatuses(UpdateOf(r))) =>
            IF UpdateOf(r).old_chat_member.status # UpdateOf(r).new_chat_member.status
            THEN req[r].result[1] = <<"True", "True">> /\ outbox[r] = <<>>
            ELSE IF FlagOnlyLeave(UpdateOf(r))
            THEN req[r].result[1] = <<"True", "False">> /\ Attempts(r) = 1
            ELSE req[r].result[1] = None /\ outbox[r] = <<>>

\* C5 witness: an administrator made owner was classified (True, True)
C5_Witness ==
    \E r \in Requests :
        /\ ClassifiedIn(r)
        /\ UpdateOf(r).old_chat_member.status = ADMINISTRATOR
        /\ UpdateOf(r).new_chat_member.status = OWNER
        /\ req[r].result[1] = <<"True", "True">>
        /\ req[r].outcome = "NotALeaveEvent"

----------------------------------------------------------------------------
(* C6 *)

\* C6: outside the flag-only rule the classifier returns the pair
\* (membership(old), membership(new)) of two booleans, where membership is
\* "status among member, administrator, owner, or is_member true".
C6_PairOfMemberships ==
    \A r \in Requests :
        (ClassifiedIn(r) /\ ~FlagOnlyLeave(UpdateOf(r)))
            => req[r].result[1] = <<Bool(Membership(UpdateOf(r).old_chat_member)),
                                    Bool(Membership(UpdateOf(r).new_chat_member))>>

----------------------------------------------------------------------------
(* C7 *)

\* C7: when the status is the same on both sides and is_member moved from true
\* to false, the classifier returns (True, False) whatever the status is, and
\* the event is handled as a leave: one message when the group filter passes.
C7_FlagOnlyLeave ==
    \A r \in Requests :
        (HandlerRan(r) /\ FlagOnlyLeave(UpdateOf(r))) =>
            /\ req[r].result # None => req[r].result[1] = <<"True", "False">>
            /\ PassesFilter(r) => (req[r].result # None /\ Attempts(r) = 1)
            /\ (PassesFilter(r) /\ req[r].pc = "done") => req[r].outcome \in {"Sent", "SendFailed"}

\* C7 witness: a member whose status stayed "member" while is_member dropped was messaged
C7_Witness ==
    \E r \in Requests :
        /\ HandlerRan(r)
        /\ FlagOnlyLeave(UpdateOf(r))
        /\ UpdateOf(r).old_chat_member.status = MEMBER
        /\ req[r].result = Some(<<"True", "False">>)
        /\ req[r].outcome = "Sent"

----------------------------------------------------------------------------
(* C10 *)

\* the step is taken after the module was loaded
AfterLoad == phase # "import"

\* C10: when TARGET_GROUP_ID is set to something int() rejects, loading the
\* module logs an error and leaves the target unset; no event is then skipped
\* for its group, and a leave from any chat is sent a message; no step after
\* loading changes the target.
C10_InvalidTargetDisablesFilter ==
    /\ [](
          (AfterLoad /\ TargetGroupIdInvalid(environ.TARGET_GROUP_ID)) =>
             /\ TARGET_GROUP_ID = None
             /\ \E record \in log :
                   record.level = "ERROR" /\ record.message = "TARGET_GROUP_ID is not a valid integer"
             /\ \A r \in Requests :
                   HandlerRan(r) =>
                      /\ req[r].outcome # "WrongGroup"
                      /\ req[r].result # None
                      /\ IsLeft(req[r].result[1]) => Attempts(r) = 1
       )
    /\ [][AfterLoad => TARGET_GROUP_ID' = TARGET_GROUP_ID]_vars

\* C10 witness: with TARGET_GROUP_ID=abc a user who left was sent the message
C10_Witness ==
    /\ environ.TARGET_GROUP_ID = Some(<<"a", "b", "c">>)
    /\ TARGET_GROUP_ID = None
    /\ \E r \in Requests : HandlerRan(r) /\ req[r].outcome = "Sent" /\ Attempts(r) = 1

----------------------------------------------------------------------------
(* C3 *)

\* the send of delivery r failed
SendFailedIn(r) ==
    /\ Attempts(r) > 0
    /\ outbox[r][Attempts(r)].result \in {"Forbidden", "BadRequest", "NetworkError"}

\* C3: when the send of a leave event fails, with whatever error, the handler
\* has made exactly one attempt, returns normally, and the delivery is answered
\* "ok", 200; the failure is logged.
C3_SendFailureIsContained ==
    \A r \in Requests :
        SendFailedIn(r) =>
            /\ Attempts(r) = 1
            /\ req[r].pc = "done"
            /\ req[r].handler = "returned"
            /\ req[r].outcome = "SendFailed"
            /\ req[r].response = Some(<<"ok", 200>>)
            /\ \E record \in log :
                  /\ record.level = "ERROR"
                  /\ record.message = "Error sending message to user"
                  /\ record.about = Some(UpdateOf(r))

\* C3 witness: a send refused with BadRequest, the delivery answered "ok", 200
C3_Witness ==
    \E r \in Requests :
        /\ SendFailedIn(r)
        /\ outbox[r][1].result = "BadRequest"
        /\ req[r].response = Some(<<"ok", 200>>)

----------------------------------------------------------------------------
(* C4 *)

\* the handling of the membership event of delivery r failed internally: an
\* exception was raised, or the application object was not there to handle it
FailedInternally(r) == HasUpdate(r) /\ req[r].outcome \in {"Error", "NotReady"}

\* C4: in every process state, an internal failure while a delivery is handled
\* is caught and logged, the caller is answered "ok", 200 and not an error, and
\* the process keeps serving.
C4_FailureNeverEscapes ==
    \A r \in Requests :
        FailedInternally(r) =>
            /\ req[r].response = Some(<<"ok", 200>>)
            /\ \E record \in log : record.level = "ERROR"
            /\ phase = "serving"

----------------------------------------------------------------------------
(* C8 *)

\* the configuration a handling reads
Configuration == <<environ, run_as_main, phase, TARGET_GROUP_ID, ptb_application, route_defined>>

LastResult(r) == IF Attempts(r) = 0 THEN "none" ELSE outbox[r][Attempts(r)].result

\* C8: two handlings of the identical event make the same send attempts each
\* (two attempts in all for a leave) and, given the same messenger result, end
\* the same way; no handling step changes the configuration.
C8_DuplicateDeliveriesAreIndependent ==
    /\ [](\A r1 \in Requests : \A r2 \in Requests \ {r1} :
            (HandlerRan(r1) /\ HandlerRan(r2) /\ req[r1].body = req[r2].body
               /\ req[r1].pc = "done" /\ req[r2].pc = "done") =>
                 /\ Attempts(r1) = Attempts(r2)
                 /\ req[r1].result = req[r2].result
                 /\ [i \in 1 .. Attempts(r1) |-> [chat_id |-> outbox[r1][i].chat_id, text |-> outbox[r1][i].text]]
                      = [i \in 1 .. Attempts(r2) |-> [chat_id |-> outbox[r2][i].chat_id, text |-> outbox[r2][i].text]]
                 /\ LastResult(r1) = LastResult(r2) =>
                       (req[r1].outcome = req[r2].outcome /\ req[r1].response = req[r2].response)
                 /\ (req[r1].result # None /\ IsLeft(req[r1].result[1])) =>
                       (Attempts(r1) = 1 /\ Attempts(r2) = 1))
    /\ [][phase = "serving" => Configuration' = Configuration]_vars

\* C8 witness: the same leave event handled twice, one message sent and one refused
C8_Witness ==
    \E r1 \in Requests : \E r2 \in Requests \ {r1} :
        /\ HandlerRan(r1) /\ HandlerRan(r2)
        /\ req[r1].body = req[r2].body
        /\ req[r1].outcome = "Sent"
        /\ req[r2].outcome = "SendFailed"
        /\ Attempts(r1) = 1 /\ Attempts(r2) = 1

----------------------------------------------------------------------------
(* C9 *)

\* how the handling of `update` alone ends, given what its own send returned
AloneOutcome(update, send_result) ==
    IF TruthyInt(TARGET_GROUP_ID) /\ update.chat.id # TARGET_GROUP_ID[1] THEN "WrongGroup"
    ELSE LET result == extract_status_change(update)
         IN  IF result = None THEN "NoRelevantChange"
             ELSE IF ~IsLeft(result) THEN "NotALeaveEvent"
             ELSE IF send_result = "ok" THEN "Sent"
             ELSE "SendFailed"

\* the sends the handling of `update` alone makes
AloneSends(update) ==
    IF AloneOutcome(update, "ok") = "Sent"
    THEN <<[chat_id |-> update.new_chat_member.user.id,
            text |-> [template |-> "why_did_you_leave",
                      first_name |-> update.new_chat_member.user.first_name,
                      group_name |-> update.chat.title]]>>
    ELSE <<>>

\* C9: however the steps of overlapping handlings interleave, each handling
\* makes the sends and ends with the outcome it has when its event is handled
\* alone; a pending or failed send of another delivery changes neither.
C9_InterleavingIsInvisible ==
    \A r \in Requests :
        HandlerRan(r) =>
            /\ [i \in 1 .. Attempts(r) |-> [chat_id |-> outbox[r][i].chat_id, text |-> outbox[r][i].text]]
                 = AloneSends(UpdateOf(r))
            /\ req[r].pc = "done" =>
                  /\ req[r].outcome = AloneOutcome(UpdateOf(r), LastResult(r))
                  /\ req[r].response = Some(<<"ok", 200>>)

\* C9 witness: while the send of one delivery is still pending, another delivery
\* was handled to the end and its message sent
C9_Witness ==
    \E r1 \in Requests : \E r2 \in Requests \ {r1} :
        /\ HandlerRan(r1) /\ HandlerRan(r2)
        /\ req[r1].pc = "send_message"
        /\ req[r2].outcome = "Sent"

====
